---- MODULE Spec2Model ----
(***************************************************************************)
(* Model of server/src/db/postgres.ts: the instrumented Prisma client.     *)
(*                                                                         *)
(* One process.  The module body may be evaluated several times in it (hot *)
(* reload); every evaluation reads NODE_ENV, picks or constructs the base  *)
(* client, extends it with the $allOperations hook and registers the       *)
(* SIGINT / SIGTERM handlers and the beforeExit listener.  The underlying  *)
(* PrismaClient (query execution, $disconnect, the beforeExit event) and   *)
(* the operating system (signals, the clock) are the environment: their    *)
(* outcomes are nondeterministic inputs of the actions.                    *)
(***************************************************************************)
EXTENDS Integers, Sequences, FiniteSets, TLC

(* ----------------------------- bounds ---------------------------------- *)
MaxInits == 2        \* evaluations of the module body in the process
MaxOps == 1          \* intercepted operations issued
MaxInvs == 2         \* shutdown handler invocations
MaxClock == 1        \* largest value of Date.now()
MaxItems == 2        \* longest result array

(* ----------------------------- inputs ---------------------------------- *)
Envs == {"production", "development"}          \* process.env.NODE_ENV
\* The calls a caller makes: model, operation, args.
Calls == {<<"User", "findMany", "argsA">>, <<"Post", "create", "argsB">>}
Signals == {"SIGINT", "SIGTERM"}

\* JavaScript values, tagged by what the hook can tell apart.
Val(kind, items, num) == [kind |-> kind, items |-> items, num |-> num]
NoValue == Val("none", <<>>, 0)
Undefined == Val("undefined", <<>>, 0)
Arrays == {Val("array", [i \in 1..n |-> i], 0) : n \in 0..MaxItems}
Results ==
    Arrays \cup {Val("object", <<>>, 1), Val("null", <<>>, 0),
                 Undefined, Val("number", <<>>, 0),
                 Val("number", <<>>, 7)}
Failures == {Val("error", <<>>, 1), Val("error", <<>>, 2)}

VARIABLES
    __prisma__,   \* globalThis.__prisma__: 0 is undefined, else a client id
    clients,      \* PrismaClient instances constructed, by id
    modules,      \* evaluations of the module body: [isProd, base]
    ops,          \* calls of the $allOperations hook, each with the lines it wrote
    invs,         \* invocations of gracefulExit and of the beforeExit listener,
                  \* each with the lines it wrote
    now           \* Date.now()

vars == <<__prisma__, clients, modules, ops, invs, now>>

(* ------------------------ environment detection ------------------------ *)
isProd(env) == env = "production"

prismaLog(env) ==
    IF isProd(env) THEN <<"warn", "error">> ELSE <<"info", "warn", "error">>

prismaOptions(env) ==
    [log |-> prismaLog(env),
     errorFormat |-> IF isProd(env) THEN "minimal" ELSE "pretty"]

(* ------------------------------ singleton ------------------------------ *)
\* new PrismaClient(prismaOptions): the next client id.
createBaseClient == Len(clients) + 1

\* Mutant of base: the global slot is never consulted.
baseAlwaysNew == createBaseClient

\* const base = globalThis.__prisma__ ?? createBaseClient()
base == IF __prisma__ # 0 THEN __prisma__ ELSE createBaseClient

\* Mutant of storeGlobal: the slot is written in every mode.
storeGlobalAlways(env, b) == b

\* if (!isProd) globalThis.__prisma__ = base
storeGlobal(env, b) == IF ~isProd(env) THEN b ELSE __prisma__

Init ==
    /\ __prisma__ = 0
    /\ clients = <<>>
    /\ modules = <<>>
    /\ ops = <<>>
    /\ invs = <<>>
    /\ now = 0

\* One evaluation of the module body.
ModuleInit(env) ==
    /\ Len(modules) < MaxInits
    /\ clients' = IF base = createBaseClient
                  THEN Append(clients, [options |-> prismaOptions(env),
                                        disconnected |-> FALSE])
                  ELSE clients
    /\ __prisma__' = storeGlobal(env, base)
    /\ modules' = Append(modules, [isProd |-> isProd(env), base |-> base])
    /\ UNCHANGED <<ops, invs, now>>

(* ------------------------- $allOperations hook ------------------------- *)
IsArray(v) == v.kind = "array"
TypeOf(v) ==
    IF v.kind \in {"array", "object", "null", "error"} THEN "object" ELSE v.kind
Truthy(v) ==
    /\ v.kind \notin {"null", "undefined"}
    /\ ~(v.kind = "number" /\ v.num = 0)

\* Mutant of size: the array test is made on a truthy length.
sizeByLength(result) ==
    IF IsArray(result) /\ Len(result.items) > 0
    THEN [tag |-> " items=", n |-> Len(result.items)]
    ELSE IF Truthy(result) /\ TypeOf(result) = "object"
         THEN [tag |-> " item=", n |-> 1]
         ELSE [tag |-> "", n |-> 0]

\* The suffix appended to the log line: " items=<n>", " item=1" or "".
size(result) ==
    IF IsArray(result) THEN [tag |-> " items=", n |-> Len(result.items)]
    ELSE IF Truthy(result) /\ TypeOf(result) = "object"
         THEN [tag |-> " item=", n |-> 1]
         ELSE [tag |-> "", n |-> 0]

\* console.log / console.error lines, by stream and by the values interpolated.
OpLine(o, ms, result) ==
    [stream |-> "log", fmt |-> "op", model |-> o.model,
     operation |-> o.operation, ms |-> ms, size |-> size(result)]

FailedLine(o, ms) ==
    [stream |-> "error", fmt |-> "FAILED after", model |-> o.model,
     operation |-> o.operation, ms |-> ms, size |-> size(NoValue)]

\* The hook up to its await: start = Date.now(); query(args).
hookCall(m, model, operation, args) ==
    [mod |-> m, model |-> model, operation |-> operation, args |-> args,
     start |-> now, ended |-> now, pc |-> "awaiting", queried |-> <<args>>,
     lines |-> <<>>,
     settled |-> [status |-> "pending", value |-> NoValue],
     outcome |-> [status |-> "pending", value |-> NoValue]]

\* Mutant of hookReturn: the try branch logs and falls off its end.
hookReturnNothing(k, result) ==
    LET o == ops[k]
        ms == now - o.start
    IN [lines |-> IF ~modules[o.mod].isProd
                  THEN <<OpLine(o, ms, result)>> ELSE <<>>,
        outcome |-> [status |-> "returned", value |-> Undefined]]

\* The try branch after the await: what is logged and what is returned.
hookReturn(k, result) ==
    LET o == ops[k]
        ms == now - o.start
    IN [lines |-> IF ~modules[o.mod].isProd
                  THEN <<OpLine(o, ms, result)>> ELSE <<>>,
        outcome |-> [status |-> "returned", value |-> result]]

\* Mutant of hookCatch: the catch branch logs and does not rethrow.
hookCatchSwallows(k, e) ==
    LET o == ops[k]
        ms == now - o.start
    IN [lines |-> <<FailedLine(o, ms)>>,
        outcome |-> [status |-> "returned", value |-> Undefined]]

\* The catch branch: what is logged and what is thrown.
hookCatch(k, e) ==
    LET o == ops[k]
        ms == now - o.start
    IN [lines |-> <<FailedLine(o, ms)>>,
        outcome |-> [status |-> "thrown", value |-> e]]

\* A caller invokes an operation of a model on the exported prisma of module m.
OpCall(m, model, operation, args) ==
    /\ Len(ops) < MaxOps
    /\ m \in DOMAIN modules
    /\ ops' = Append(ops, hookCall(m, model, operation, args))
    /\ UNCHANGED <<__prisma__, clients, modules, invs, now>>

\* query(args) resolves with result; the hook resumes in its try branch.
OpResolve(k, result) ==
    /\ k \in DOMAIN ops
    /\ ops[k].pc = "awaiting"
    /\ LET r == hookReturn(k, result)
       IN ops' = [ops EXCEPT ![k].pc = "done", ![k].ended = now,
                             ![k].settled = [status |-> "resolved", value |-> result],
                             ![k].outcome = r.outcome,
                             ![k].lines = @ \o r.lines]
    /\ UNCHANGED <<__prisma__, clients, modules, invs, now>>

\* query(args) rejects with e; the hook resumes in its catch branch.
OpReject(k, e) ==
    /\ k \in DOMAIN ops
    /\ ops[k].pc = "awaiting"
    /\ LET r == hookCatch(k, e)
       IN ops' = [ops EXCEPT ![k].pc = "done", ![k].ended = now,
                             ![k].settled = [status |-> "rejected", value |-> e],
                             ![k].outcome = r.outcome,
                             ![k].lines = @ \o r.lines]
    /\ UNCHANGED <<__prisma__, clients, modules, invs, now>>

(* --------------------------- graceful shutdown -------------------------- *)
ReceivedLine(signal) ==
    [stream |-> "log", fmt |-> "Received", signal |-> signal, err |-> NoValue]

DisconnectErrorLine(err) ==
    [stream |-> "error", fmt |-> "Error during disconnect", signal |-> "", err |-> err]

BeforeExitLine ==
    [stream |-> "log", fmt |-> "beforeExit => disconnect", signal |-> "", err |-> NoValue]

\* Whether some hook call is awaiting its query.
InFlight == \E k \in DOMAIN ops : ops[k].pc = "awaiting"

\* What every invocation starts with: no $disconnect settled yet, and (for the
\* record) whether the client had been disconnected and whether an operation
\* was in flight when the handler ran.
Started(m) ==
    [settled |-> [status |-> "pending", value |-> NoValue],
     afterDisconnect |-> clients[modules[m].base].disconnected,
     inFlight |-> InFlight]

\* Mutant of gracefulExit: $disconnect is skipped on a client already disconnected.
gracefulExitIfConnected(m, signal) ==
    [mod |-> m, handler |-> "gracefulExit", trigger |-> signal,
     lines |-> <<ReceivedLine(signal)>>, raised |-> NoValue,
     pc |-> IF clients[modules[m].base].disconnected
            THEN "completed" ELSE "disconnecting",
     disconnectCalls |-> IF clients[modules[m].base].disconnected THEN 0 ELSE 1]
    @@ Started(m)

\* Mutant of gracefulExit: the routine waits for the operations in flight.
gracefulExitDrains(m, signal) ==
    [mod |-> m, handler |-> "gracefulExit", trigger |-> signal,
     lines |-> <<ReceivedLine(signal)>>, raised |-> NoValue,
     pc |-> IF InFlight THEN "draining" ELSE "disconnecting",
     disconnectCalls |-> IF InFlight THEN 0 ELSE 1]
    @@ Started(m)

\* Mutant of gracefulExit: the routine is a no-op while a shutdown is in progress.
gracefulExitOnce(m, signal) ==
    LET busy == \E j \in DOMAIN invs : invs[j].pc = "disconnecting"
    IN [mod |-> m, handler |-> "gracefulExit", trigger |-> signal,
        lines |-> <<ReceivedLine(signal)>>, raised |-> NoValue,
        pc |-> IF busy THEN "completed" ELSE "disconnecting",
        disconnectCalls |-> IF busy THEN 0 ELSE 1]
       @@ Started(m)

\* gracefulExit(signal) of module m up to its await:
\* console.log(...); prisma.$disconnect().
gracefulExit(m, signal) ==
    [mod |-> m, handler |-> "gracefulExit", trigger |-> signal,
     lines |-> <<ReceivedLine(signal)>>,
     pc |-> "disconnecting", disconnectCalls |-> 1, raised |-> NoValue]
    @@ Started(m)

\* Mutant of gracefulExitCatch: the failure is logged and thrown again.
gracefulExitRethrows(i, err) ==
    [lines |-> <<DisconnectErrorLine(err)>>, pc |-> "raised", raised |-> err]

\* The catch branch of gracefulExit: the failure is logged and the routine ends.
gracefulExitCatch(i, err) ==
    [lines |-> <<DisconnectErrorLine(err)>>, pc |-> "completed", raised |-> NoValue]

\* The beforeExit listener of module m up to its await.
beforeExitListener(m) ==
    [mod |-> m, handler |-> "beforeExit", trigger |-> "beforeExit",
     lines |-> IF ~modules[m].isProd THEN <<BeforeExitLine>> ELSE <<>>,
     pc |-> "disconnecting", disconnectCalls |-> 1, raised |-> NoValue]
    @@ Started(m)

\* The listener has no try: a failing $disconnect rejects the listener's promise.
beforeExitReject(i, err) ==
    [lines |-> <<>>, pc |-> "raised", raised |-> err]

\* process.on(signal, ...): every evaluation of the module registered a handler,
\* and the process runs them all, in registration order.
Signal(signal) ==
    /\ Len(modules) > 0
    /\ Len(invs) + Len(modules) <= MaxInvs
    /\ invs' = invs \o [m \in 1..Len(modules) |-> gracefulExit(m, signal)]
    /\ UNCHANGED <<__prisma__, clients, modules, ops, now>>

\* The modules whose base is client c, in evaluation order: the beforeExit
\* listeners registered on c.
Listeners(c) ==
    LET F[n \in 0..Len(modules)] ==
            IF n = 0 THEN <<>>
            ELSE IF modules[n].base = c THEN Append(F[n - 1], n) ELSE F[n - 1]
    IN F[Len(modules)]

\* Client c emits beforeExit: base.$on("beforeExit", ...) listeners run.
BeforeExit(c) ==
    /\ c \in DOMAIN clients
    /\ Len(invs) + Len(Listeners(c)) <= MaxInvs
    /\ LET ls == Listeners(c)
       IN invs' = invs \o [j \in 1..Len(ls) |-> beforeExitListener(ls[j])]
    /\ UNCHANGED <<__prisma__, clients, modules, ops, now>>

\* prisma.$disconnect() of invocation i resolves: both handlers end normally.
DisconnectResolve(i) ==
    /\ i \in DOMAIN invs
    /\ invs[i].pc = "disconnecting"
    /\ invs' = [invs EXCEPT ![i].pc = "completed",
                             ![i].settled = [status |-> "resolved", value |-> NoValue]]
    /\ clients' = [clients EXCEPT ![modules[invs[i].mod].base].disconnected = TRUE]
    /\ UNCHANGED <<__prisma__, modules, ops, now>>

\* prisma.$disconnect() of invocation i rejects with err.
DisconnectReject(i, err) ==
    /\ i \in DOMAIN invs
    /\ invs[i].pc = "disconnecting"
    /\ LET r == IF invs[i].handler = "gracefulExit"
                THEN gracefulExitCatch(i, err)
                ELSE beforeExitReject(i, err)
       IN invs' = [invs EXCEPT ![i].pc = r.pc, ![i].raised = r.raised,
                               ![i].lines = @ \o r.lines,
                               ![i].settled = [status |-> "rejected", value |-> err]]
    /\ UNCHANGED <<__prisma__, clients, modules, ops, now>>

\* Date.now() advances.
Tick ==
    /\ now < MaxClock
    /\ now' = now + 1
    /\ UNCHANGED <<__prisma__, clients, modules, ops, invs>>

Next ==
    \/ \E env \in Envs : ModuleInit(env)
    \/ \E m \in 1..MaxInits, c \in Calls : OpCall(m, c[1], c[2], c[3])
    \/ \E k \in 1..MaxOps, result \in Results : OpResolve(k, result)
    \/ \E k \in 1..MaxOps, e \in Failures : OpReject(k, e)
    \/ \E signal \in Signals : Signal(signal)
    \/ \E c \in 1..MaxInits : BeforeExit(c)
    \/ \E i \in 1..MaxInvs : DisconnectResolve(i)
    \/ \E i \in 1..MaxInvs, err \in Failures : DisconnectReject(i, err)
    \/ Tick

Spec == Init /\ [][Next]_vars

\* The hook alone: no shutdown trigger fires.
NextHook ==
    \/ \E env \in Envs : ModuleInit(env)
    \/ \E m \in 1..MaxInits, c \in Calls : OpCall(m, c[1], c[2], c[3])
    \/ \E k \in 1..MaxOps, result \in Results : OpResolve(k, result)
    \/ \E k \in 1..MaxOps, e \in Failures : OpReject(k, e)
    \/ Tick

SpecHook == Init /\ [][NextHook]_vars

\* Initialization and shutdown alone: no operation is issued.
NextShutdown ==
    \/ \E env \in Envs : ModuleInit(env)
    \/ \E signal \in Signals : Signal(signal)
    \/ \E c \in 1..MaxInits : BeforeExit(c)
    \/ \E i \in 1..MaxInvs : DisconnectResolve(i)
    \/ \E i \in 1..MaxInvs, err \in Failures : DisconnectReject(i, err)

SpecShutdown == Init /\ [][NextShutdown]_vars

\* Operations and shutdown interleaved; every operation is the same call with
\* the same two outcomes, every $disconnect resolves, and the clock stands still.
OneCall == <<"User", "findMany", "argsA">>
OneResult == Val("object", <<>>, 1)
OneFailure == Val("error", <<>>, 1)

NextInFlight ==
    \/ \E env \in Envs : ModuleInit(env)
    \/ \E m \in 1..MaxInits : OpCall(m, OneCall[1], OneCall[2], OneCall[3])
    \/ \E k \in 1..MaxOps : OpResolve(k, OneResult)
    \/ \E k \in 1..MaxOps : OpReject(k, OneFailure)
    \/ \E signal \in Signals : Signal(signal)
    \/ \E c \in 1..MaxInits : BeforeExit(c)
    \/ \E i \in 1..MaxInvs : DisconnectResolve(i)

SpecInFlight == Init /\ [][NextInFlight]_vars

(* ------------------------------- claims -------------------------------- *)
NonProd(m) == ~modules[m].isProd
Resolved(k) == ops[k].settled.status = "resolved"
Rejected(k) == ops[k].settled.status = "rejected"
GracefulExits == {i \in DOMAIN invs : invs[i].handler = "gracefulExit"}
BeforeExits == {i \in DOMAIN invs : invs[i].handler = "beforeExit"}
DisconnectFailed(i) == invs[i].settled.status = "rejected"

\* C1: whenever the underlying call of a hook call has succeeded with value v,
\* the hook call has returned v itself, in every mode, and the underlying call
\* was made once, with the caller's arguments.
C1_ResultUnchanged ==
    \A k \in DOMAIN ops :
        Resolved(k) =>
            /\ ops[k].outcome.status = "returned"
            /\ ops[k].outcome.value = ops[k].settled.value
            /\ ops[k].queried = <<ops[k].args>>

\* C1 witness: a production-mode hook call has returned a non-empty array.
C1_Witness ==
    \E k \in DOMAIN ops :
        /\ Resolved(k)
        /\ modules[ops[k].mod].isProd
        /\ ops[k].settled.value.kind = "array"
        /\ Len(ops[k].settled.value.items) > 0
        /\ ops[k].outcome.status = "returned"

\* C2: whenever the underlying call of a hook call has failed with e, the hook
\* call has written exactly one line, an error line with its model, operation
\* and elapsed milliseconds, in every mode, has thrown e itself, and the
\* underlying call was made once.
C2_FailureLoggedAndRethrown ==
    \A k \in DOMAIN ops :
        Rejected(k) =>
            /\ Len(ops[k].lines) = 1
            /\ ops[k].lines[1].stream = "error"
            /\ ops[k].lines[1].model = ops[k].model
            /\ ops[k].lines[1].operation = ops[k].operation
            /\ ops[k].lines[1].ms = ops[k].ended - ops[k].start
            /\ ops[k].outcome.status = "thrown"
            /\ ops[k].outcome.value = ops[k].settled.value
            /\ Len(ops[k].queried) = 1

\* C2 witness: a production-mode hook call has failed after the clock moved.
C2_Witness ==
    \E k \in DOMAIN ops :
        /\ Rejected(k)
        /\ modules[ops[k].mod].isProd
        /\ ops[k].ended > ops[k].start
        /\ ops[k].outcome.status = "thrown"

\* C3: as long as every evaluation of the module was in non-production mode,
\* at most one base client has been constructed, every evaluation's base is
\* that client, and the global slot holds it.
C3_SingleClientInDev ==
    (\A m \in DOMAIN modules : NonProd(m)) =>
        /\ Len(clients) <= 1
        /\ \A m \in DOMAIN modules :
               modules[m].base = 1 /\ __prisma__ = 1 /\ Len(clients) = 1

\* C3 witness: two non-production evaluations share one client.
C3_Witness ==
    /\ Len(modules) >= 2
    /\ \A m \in DOMAIN modules : NonProd(m)
    /\ Len(clients) = 1
    /\ modules[1].base = modules[2].base

\* C4: every invocation of gracefulExit has called $disconnect exactly once and
\* has raised nothing, also when the client had already been disconnected by
\* an earlier invocation; once its $disconnect has settled it has completed.
C4_DisconnectOncePerInvocation ==
    \A i \in GracefulExits :
        /\ invs[i].disconnectCalls = 1
        /\ invs[i].raised = NoValue
        /\ invs[i].pc \in {"disconnecting", "completed"}
        /\ invs[i].settled.status # "pending" => invs[i].pc = "completed"

\* C4 witness: a gracefulExit that began after the client had been disconnected
\* has completed.
C4_Witness ==
    \E i \in GracefulExits :
        /\ invs[i].afterDisconnect
        /\ invs[i].pc = "completed"
        /\ invs[i].disconnectCalls = 1

\* C5: whenever $disconnect has failed with err inside gracefulExit, the
\* routine has written the error line carrying err, has completed normally
\* and has raised nothing.
C5_DisconnectFailureSwallowed ==
    \A i \in GracefulExits :
        DisconnectFailed(i) =>
            /\ invs[i].lines =
                   <<ReceivedLine(invs[i].trigger),
                     [stream |-> "error", fmt |-> "Error during disconnect",
                      signal |-> "", err |-> invs[i].settled.value]>>
            /\ invs[i].pc = "completed"
            /\ invs[i].raised = NoValue

\* C5 witness: a SIGTERM-triggered gracefulExit whose $disconnect failed has
\* completed.
C5_Witness ==
    \E i \in GracefulExits :
        /\ invs[i].trigger = "SIGTERM"
        /\ DisconnectFailed(i)
        /\ invs[i].pc = "completed"

\* C6: the beforeExit listener runs the same routine as the signals: it calls
\* $disconnect once and, whenever that $disconnect has failed, the failure has
\* been logged and nothing has been raised out of the listener.
C6_BeforeExitSwallowsFailure ==
    \A i \in BeforeExits :
        /\ invs[i].disconnectCalls = 1
        /\ DisconnectFailed(i) =>
               /\ \E n \in DOMAIN invs[i].lines :
                      /\ invs[i].lines[n].stream = "error"
                      /\ invs[i].lines[n].err = invs[i].settled.value
               /\ invs[i].raised = NoValue

\* C7: whenever the underlying call of a hook call has succeeded, the hook
\* call has written one informational line in non-production mode and no
\* line in production mode, and the line's size hint is the array length for
\* an array (0 included), item=1 for a non-null object and empty otherwise.
C7_SizeHint ==
    \A k \in DOMAIN ops :
        Resolved(k) =>
            LET v == ops[k].settled.value
            IN IF NonProd(ops[k].mod)
               THEN /\ Len(ops[k].lines) = 1
                    /\ ops[k].lines[1].stream = "log"
                    /\ ops[k].lines[1].model = ops[k].model
                    /\ ops[k].lines[1].operation = ops[k].operation
                    /\ ops[k].lines[1].ms = ops[k].ended - ops[k].start
                    /\ ops[k].lines[1].size =
                           CASE v.kind = "array" ->
                                    [tag |-> " items=", n |-> Len(v.items)]
                             [] v.kind = "object" -> [tag |-> " item=", n |-> 1]
                             [] OTHER -> [tag |-> "", n |-> 0]
               ELSE ops[k].lines = <<>>

\* C7 witness: a non-production hook call has logged an empty array.
C7_Witness ==
    \E k \in DOMAIN ops :
        /\ Resolved(k)
        /\ NonProd(ops[k].mod)
        /\ ops[k].settled.value.kind = "array"
        /\ ops[k].settled.value.items = <<>>
        /\ Len(ops[k].lines) = 1

\* C8: no shutdown handler waits for the operations in flight: every handler
\* that ran while a hook call was awaiting its query has called $disconnect.
C8_NoDrainBeforeDisconnect ==
    \A i \in DOMAIN invs :
        invs[i].inFlight =>
            /\ invs[i].disconnectCalls = 1
            /\ invs[i].pc \in {"disconnecting", "completed", "raised"}

\* C8 witness: a $disconnect called while a hook call was in flight is
\* outstanding and a hook call is still awaiting its query.
C8_Witness ==
    \E i \in DOMAIN invs :
        /\ invs[i].inFlight
        /\ invs[i].pc = "disconnecting"
        /\ invs[i].disconnectCalls = 1
        /\ InFlight

\* C9: the shutdown path has no re-entry guard: a trigger that fires while a
\* $disconnect is outstanding makes every handler it runs call $disconnect
\* itself.
C9_NoReentryGuard ==
    [][(\E j \in DOMAIN invs : invs[j].pc = "disconnecting") =>
           \A i \in (DOMAIN invs') \ (DOMAIN invs) :
               /\ invs'[i].pc = "disconnecting"
               /\ invs'[i].disconnectCalls = 1]_vars

\* C9 witness: the $disconnect calls of two different triggers are outstanding
\* at the same time.
C9_Witness ==
    \E i, j \in DOMAIN invs :
        /\ invs[i].trigger # invs[j].trigger
        /\ invs[i].pc = "disconnecting"
        /\ invs[j].pc = "disconnecting"

\* An evaluation of the module in production mode happens in this step.
ProdInitStep ==
    /\ Len(modules') = Len(modules) + 1
    /\ modules'[Len(modules')].isProd

\* C10: the slot is written only by non-production evaluations and read by
\* all: while every evaluation was in production mode the slot is empty and
\* each evaluation constructed its own client; a production evaluation that
\* finds the slot filled takes the stored client and constructs none.
C10_SlotWrittenOnlyInDev ==
    /\ []((\A m \in DOMAIN modules : modules[m].isProd) =>
              /\ __prisma__ = 0
              /\ Len(clients) = Len(modules)
              /\ \A m \in DOMAIN modules : modules[m].base = m)
    /\ [][/\ __prisma__' # __prisma__ =>
                 /\ Len(modules') = Len(modules) + 1
                 /\ ~modules'[Len(modules')].isProd
          /\ (ProdInitStep /\ __prisma__ # 0) =>
                 /\ modules'[Len(modules')].base = __prisma__
                 /\ clients' = clients
                 /\ __prisma__' = __prisma__]_vars

\* C10 witness: a production evaluation has reused the client a
\* non-production evaluation stored, and no second client exists.
C10_Witness ==
    \E m \in DOMAIN modules :
        /\ m > 1
        /\ modules[m].isProd
        /\ ~modules[m - 1].isProd
        /\ modules[m].base = modules[m - 1].base
        /\ Len(clients) = 1
====
